---- MODULE Spec2Model ----
(***************************************************************************)
(* Thermal Touch: the heat-diffusion engine of src/src/HeatBackground.tsx  *)
(* (the React component) and src/codepen/pen-js.js (the stand-alone pen),  *)
(* with the brush-kernel builder and the colour-LUT builder.               *)
(*                                                                         *)
(* Numbers.  The program computes in IEEE doubles and stores cells in      *)
(* Float32Array.  Here every stored quantity is a fixed-point integer:     *)
(*   heat, paint values    in units of 1/HeatOne                           *)
(*   kernel weights, glow  in units of 1/WeightOne                         *)
(*   decay factors         in units of 1/DecayOne                          *)
(*   distances             in units of 1/LenOne grid cells                 *)
(* and a store rounds to the nearest unit, ties to even, as Math.fround    *)
(* does (in float32's lowest binade the representable values ARE an        *)
(* evenly spaced grid, so there the model is exact).  Comparisons of       *)
(* distances with radii are done exactly on the squares.                   *)
(***************************************************************************)
EXTENDS Integers, Sequences, FiniteSets, TLC

VARIABLES
  fnIn, fnOut,      \* a builder called on its own: its arguments, its result
  impl,             \* "component" (HeatBackground.tsx) or "pen" (pen-js.js)
  phase,            \* "running": the effect is alive; "stopped": mounted, the
                    \* effect returned at once; "unmounted": torn down
  prefersReducedMotion,
  listening,        \* the effect's event listeners are registered
  frames,           \* the frame callbacks requested and neither run nor cancelled
  frameId,          \* the effect's frameId: the request it would cancel
  rafCount,         \* how many frame requests the window has handed out
  win,              \* window: innerWidth, innerHeight, isMobile()
  cfg,              \* palette, brushRadius, bleedRadius, glowMultiplier, burnSpeed
  ptr,              \* pointer / pointerRef.current: x, y, active
  pixelScale, baseDiffusion, screenDiag,
  gridW, gridH,
  heat, heatSwap, glowMask, pixels,
  bufId,            \* which allocation each of the four buffers is
  kernel,
  lastTime, fracIters,
  last,             \* what the last operation did (its locals, the state before it)
  used              \* how many ticks and events have happened

fnVars == <<fnIn, fnOut>>
envVars == <<impl, win, cfg, ptr>>
gridVars == <<pixelScale, baseDiffusion, screenDiag, gridW, gridH, kernel>>
bufVars == <<heat, heatSwap, glowMask, pixels, bufId>>
loopVars == <<lastTime, fracIters>>
schedVars == <<prefersReducedMotion, listening, frames, frameId, rafCount>>
engineVars == <<phase, envVars, gridVars, bufVars, loopVars, schedVars, last, used>>
vars == <<fnVars, engineVars>>

\* the result of a call not made yet
None == <<>>

\* the engine does not exist while a builder is called on its own
EngineOff ==
  /\ impl = "none" /\ phase = "unmounted"
  /\ prefersReducedMotion = FALSE /\ listening = FALSE
  /\ frames = {} /\ frameId = 0 /\ rafCount = 0
  /\ win = None /\ cfg = None /\ ptr = None
  /\ pixelScale = 0 /\ baseDiffusion = 0 /\ screenDiag = 0
  /\ gridW = 0 /\ gridH = 0
  /\ heat = None /\ heatSwap = None /\ glowMask = None /\ pixels = None
  /\ bufId = None
  /\ kernel = None
  /\ lastTime = 0 /\ fracIters = 0
  /\ last = None /\ used = None

(***************************************************************************)
(* Resolutions of the fixed-point representation.                          *)
(***************************************************************************)
WeightOne == 32768
LenOne == 256
HeatOne == 1048576
DecayOne == 32768

(***************************************************************************)
(* Arithmetic helpers.                                                     *)
(***************************************************************************)
Max(a, b) == IF a >= b THEN a ELSE b
Min(a, b) == IF a <= b THEN a ELSE b
Abs(a) == IF a >= 0 THEN a ELSE -a

\* Math.ceil(n / d) for n >= 0, d > 0
CeilDiv(n, d) == (n + d - 1) \div d

\* n / d stored in a float cell: nearest unit, ties to even (n >= 0, d > 0)
RoundDiv(n, d) ==
  LET q == n \div d
      r == n % d
  IN  IF 2 * r > d THEN q + 1
      ELSE IF 2 * r < d THEN q
      ELSE IF q % 2 = 0 THEN q ELSE q + 1

\* a * n / d stored in a float cell, computed without leaving 32 bits
\* (a >= 0, 0 <= n, n * d < 2^31)
MulFix(a, n, d) == (a \div d) * n + RoundDiv((a % d) * n, d)

\* floor(sqrt(n)), n >= 0
RECURSIVE FloorSqrt(_)
FloorSqrt(n) ==
  IF n < 2 THEN n
  ELSE LET r == 2 * FloorSqrt(n \div 4)
       IN  IF (r + 1) * (r + 1) <= n THEN r + 1 ELSE r

\* Math.sqrt(d2) in units of 1/LenOne, correctly rounded
Sqrt(d2) ==
  LET n == d2 * LenOne * LenOne
      r == FloorSqrt(n)
  IN  IF n - r * r > r THEN r + 1 ELSE r

(***************************************************************************)
(* Brush kernel (buildBrushKernel / buildKernel).                          *)
(***************************************************************************)

\* faulty variant: softness counted from fade radius 0 instead of 30
Softness_FromZero(bleedRadius) == RoundDiv(bleedRadius * WeightOne, 60)

\* softness = Math.max(0, (bleedRadius - 30) / 30)
Softness(bleedRadius) == RoundDiv(Max(0, bleedRadius - 30) * WeightOne, 30)

\* innerMinWeight = 1 - softness * 0.6
InnerMinWeight(bleedRadius) == WeightOne - RoundDiv(Softness(bleedRadius) * 6, 10)

\* dist <= (num / scale), with dist = sqrt(d2): exact comparison
DistLeq(d2, num, scale) == d2 * scale * scale <= num * num

\* weight of a cell inside the brush disc: 1 - (1 - innerMinWeight) * t * t,
\* t = dist / brushGridR (t = 0 when brushGridR = 0)
DiscWeight(d2, brushRadius, bleedRadius, scale) ==
  IF brushRadius > 0
    THEN WeightOne - RoundDiv((WeightOne - InnerMinWeight(bleedRadius))
                                * d2 * scale * scale,
                              brushRadius * brushRadius)
    ELSE WeightOne

\* faulty variant: the bleed zone fades from 1 instead of from innerMinWeight
BleedWeight_FromOne(d2, brushRadius, bleedRadius, scale) ==
  LET t == IF bleedRadius > 0
             THEN RoundDiv((scale * Sqrt(d2) - brushRadius * LenOne) * WeightOne,
                           bleedRadius * LenOne)
             ELSE WeightOne
      u == WeightOne - t
  IN  MulFix(MulFix(u, u, WeightOne), u, WeightOne)

\* weight of a cell in the bleed zone: innerMinWeight * (1 - t)^3,
\* t = (dist - brushGridR) / bleedGridR (t = 1 when bleedGridR = 0)
BleedWeight(d2, brushRadius, bleedRadius, scale) ==
  LET t == IF bleedRadius > 0
             THEN RoundDiv((scale * Sqrt(d2) - brushRadius * LenOne) * WeightOne,
                           bleedRadius * LenOne)
             ELSE WeightOne
      u == WeightOne - t
  IN  MulFix(MulFix(MulFix(InnerMinWeight(bleedRadius), u, WeightOne),
                    u, WeightOne), u, WeightOne)

KernelWeight(d2, brushRadius, bleedRadius, scale) ==
  IF DistLeq(d2, brushRadius, scale)
    THEN DiscWeight(d2, brushRadius, bleedRadius, scale)
    ELSE BleedWeight(d2, brushRadius, bleedRadius, scale)

\* the (dx, dy) pairs in the order the two nested loops visit them
KernelScan(c) ==
  [k \in 1..((2 * c + 1) * (2 * c + 1)) |->
     [dx |-> ((k - 1) % (2 * c + 1)) - c, dy |-> ((k - 1) \div (2 * c + 1)) - c]]

\* the kernel: the entries (dx, dy, weight) in push order; count = Len
buildBrushKernel(brushRadius, bleedRadius, scale) ==
  LET ceil == CeilDiv(brushRadius + bleedRadius, scale)
      inside == SelectSeq(KernelScan(ceil),
                  LAMBDA o: DistLeq(o.dx * o.dx + o.dy * o.dy,
                                    brushRadius + bleedRadius, scale))
  IN  [i \in 1..Len(inside) |->
         [dx |-> inside[i].dx, dy |-> inside[i].dy,
          w |-> KernelWeight(inside[i].dx * inside[i].dx + inside[i].dy * inside[i].dy,
                             brushRadius, bleedRadius, scale)]]

(***************************************************************************)
(* Palettes and the colour LUT (colorPalettes.ts, buildLUT of the pen).    *)
(* A stop is [pos, r, g, b] with pos in units of 1/PosDen; a background is *)
(* the <<r, g, b>> its hex string parses to.                               *)
(***************************************************************************)
PosDen == 100

\* the registry of palettes
palettes == [
  thermal |->
    [cycling |-> FALSE, background |-> <<0, 0, 0>>, stops |-> <<
      [pos |-> 0, r |-> 0, g |-> 0, b |-> 0],
      [pos |-> 10, r |-> 15, g |-> 0, b |-> 50],
      [pos |-> 20, r |-> 50, g |-> 0, b |-> 100],
      [pos |-> 30, r |-> 100, g |-> 0, b |-> 140],
      [pos |-> 40, r |-> 160, g |-> 0, b |-> 150],
      [pos |-> 50, r |-> 200, g |-> 0, b |-> 100],
      [pos |-> 60, r |-> 230, g |-> 40, b |-> 40],
      [pos |-> 70, r |-> 245, g |-> 100, b |-> 0],
      [pos |-> 80, r |-> 255, g |-> 160, b |-> 0],
      [pos |-> 90, r |-> 255, g |-> 220, b |-> 40],
      [pos |-> 100, r |-> 255, g |-> 250, b |-> 100]>>],
  thermalLight |->
    [cycling |-> FALSE, background |-> <<255, 255, 255>>, stops |-> <<
      [pos |-> 0, r |-> 255, g |-> 255, b |-> 255],
      [pos |-> 10, r |-> 255, g |-> 240, b |-> 180],
      [pos |-> 20, r |-> 250, g |-> 220, b |-> 160],
      [pos |-> 30, r |-> 250, g |-> 200, b |-> 130],
      [pos |-> 40, r |-> 245, g |-> 180, b |-> 120],
      [pos |-> 50, r |-> 240, g |-> 160, b |-> 140],
      [pos |-> 60, r |-> 230, g |-> 130, b |-> 180],
      [pos |-> 70, r |-> 215, g |-> 135, b |-> 215],
      [pos |-> 80, r |-> 195, g |-> 145, b |-> 235],
      [pos |-> 90, r |-> 200, g |-> 165, b |-> 240],
      [pos |-> 100, r |-> 220, g |-> 195, b |-> 245]>>],
  nightVision |->
    [cycling |-> FALSE, background |-> <<0, 0, 0>>, stops |-> <<
      [pos |-> 0, r |-> 0, g |-> 0, b |-> 0],
      [pos |-> 10, r |-> 0, g |-> 10, b |-> 0],
      [pos |-> 20, r |-> 0, g |-> 30, b |-> 5],
      [pos |-> 30, r |-> 0, g |-> 60, b |-> 10],
      [pos |-> 40, r |-> 0, g |-> 100, b |-> 15],
      [pos |-> 50, r |-> 5, g |-> 140, b |-> 20],
      [pos |-> 60, r |-> 10, g |-> 180, b |-> 30],
      [pos |-> 70, r |-> 30, g |-> 210, b |-> 40],
      [pos |-> 80, r |-> 60, g |-> 235, b |-> 60],
      [pos |-> 90, r |-> 120, g |-> 250, b |-> 100],
      [pos |-> 100, r |-> 180, g |-> 255, b |-> 160]>>],
  rainbowDark |->
    [cycling |-> TRUE, background |-> <<0, 0, 0>>, stops |-> <<
      [pos |-> 0, r |-> 126, g |-> 61, b |-> 255],
      [pos |-> 8, r |-> 97, g |-> 97, b |-> 255],
      [pos |-> 16, r |-> 78, g |-> 166, b |-> 255],
      [pos |-> 24, r |-> 0, g |-> 199, b |-> 166],
      [pos |-> 32, r |-> 0, g |-> 255, b |-> 85],
      [pos |-> 40, r |-> 85, g |-> 255, b |-> 0],
      [pos |-> 48, r |-> 170, g |-> 255, b |-> 0],
      [pos |-> 56, r |-> 229, g |-> 229, b |-> 26],
      [pos |-> 64, r |-> 255, g |-> 170, b |-> 0],
      [pos |-> 72, r |-> 255, g |-> 85, b |-> 0],
      [pos |-> 80, r |-> 255, g |-> 61, b |-> 61],
      [pos |-> 88, r |-> 255, g |-> 0, b |-> 115],
      [pos |-> 93, r |-> 192, g |-> 6, b |-> 234],
      [pos |-> 100, r |-> 126, g |-> 61, b |-> 255]>>],
  rainbowLight |->
    [cycling |-> TRUE, background |-> <<255, 255, 255>>, stops |-> <<
      [pos |-> 0, r |-> 197, g |-> 168, b |-> 255],
      [pos |-> 8, r |-> 184, g |-> 184, b |-> 255],
      [pos |-> 16, r |-> 175, g |-> 215, b |-> 255],
      [pos |-> 24, r |-> 140, g |-> 230, b |-> 215],
      [pos |-> 32, r |-> 140, g |-> 255, b |-> 179],
      [pos |-> 40, r |-> 179, g |-> 255, b |-> 140],
      [pos |-> 48, r |-> 217, g |-> 255, b |-> 140],
      [pos |-> 56, r |-> 243, g |-> 243, b |-> 152],
      [pos |-> 64, r |-> 255, g |-> 217, b |-> 140],
      [pos |-> 72, r |-> 255, g |-> 179, b |-> 140],
      [pos |-> 80, r |-> 255, g |-> 168, b |-> 168],
      [pos |-> 88, r |-> 255, g |-> 140, b |-> 192],
      [pos |-> 93, r |-> 227, g |-> 143, b |-> 246],
      [pos |-> 100, r |-> 197, g |-> 168, b |-> 255]>>],
  synthwave |->
    [cycling |-> FALSE, background |-> <<0, 0, 0>>, stops |-> <<
      [pos |-> 0, r |-> 0, g |-> 0, b |-> 0],
      [pos |-> 10, r |-> 20, g |-> 0, b |-> 40],
      [pos |-> 20, r |-> 50, g |-> 0, b |-> 80],
      [pos |-> 30, r |-> 80, g |-> 0, b |-> 140],
      [pos |-> 40, r |-> 120, g |-> 0, b |-> 180],
      [pos |-> 50, r |-> 0, g |-> 120, b |-> 160],
      [pos |-> 60, r |-> 0, g |-> 180, b |-> 180],
      [pos |-> 70, r |-> 200, g |-> 0, b |-> 160],
      [pos |-> 80, r |-> 255, g |-> 40, b |-> 120],
      [pos |-> 90, r |-> 255, g |-> 100, b |-> 180],
      [pos |-> 100, r |-> 255, g |-> 180, b |-> 220]>>]]

PaletteKeys == DOMAIN palettes

LUT_SIZE == 256

\* Math.round(n / d) for n >= 0, d > 0: halves round up
RoundHalfUp(n, d) == (2 * n + d) \div (2 * d)

\* Math.round(a + (b - a) * (num / den))
Lerp(a, b, num, den) == RoundHalfUp(a * den + (b - a) * num, den)

\* (255 << 24) | (b << 16) | (g << 8) | r, as the 32-bit integer the
\* expression yields (channels are within 0..255)
Pack(r, g, b) == (b * 65536 + g * 256 + r) - 16777216

PackR(px) == (px + 16777216) % 256
PackG(px) == ((px + 16777216) \div 256) % 256
PackB(px) == ((px + 16777216) \div 65536) % 256

\* faulty variant: the fade-in band one entry short
FADE_IN_Short(cycling) == IF cycling THEN 39 ELSE 0

\* FADE_IN = cycling ? 40 : 0
FADE_IN(cycling) == IF cycling THEN 40 ELSE 0

\* faulty variant: the intensity of entry i taken as i / 256
LutT_Over256(cycling, i) ==
  IF cycling THEN <<i - FADE_IN(cycling), 255 - FADE_IN(cycling)>> ELSE <<i, 256>>

\* t = cycling ? (i - FADE_IN) / (255 - FADE_IN) : i / 255, as <<num, den>>
LutT(cycling, i) ==
  IF cycling THEN <<i - FADE_IN(cycling), 255 - FADE_IN(cycling)>> ELSE <<i, 255>>

\* the first s with stops[s].pos <= t <= stops[s+1].pos, or 0 when there is none
Bracket(stops, t) ==
  LET match == {s \in 1..(Len(stops) - 1) :
                  /\ PosDen * t[1] >= stops[s].pos * t[2]
                  /\ PosDen * t[1] <= stops[s + 1].pos * t[2]}
  IN  IF match = {} THEN 0 ELSE CHOOSE s \in match : \A u \in match : s <= u

\* one entry of the LUT
LutEntry(stops, cycling, background, i) ==
  IF i < FADE_IN(cycling)
    THEN \* fade-in: blend from the background toward the first stop
         Pack(Lerp(background[1], stops[1].r, i, FADE_IN(cycling)),
              Lerp(background[2], stops[1].g, i, FADE_IN(cycling)),
              Lerp(background[3], stops[1].b, i, FADE_IN(cycling)))
    ELSE LET t == LutT(cycling, i)
             s == Bracket(stops, t)
             lo == IF s = 0 THEN stops[1] ELSE stops[s]
             hi == IF s = 0 THEN stops[Len(stops)] ELSE stops[s + 1]
             range == hi.pos - lo.pos
             \* frac = range > 0 ? (t - lo.pos) / range : 0, as num / den
             num == IF range > 0 THEN PosDen * t[1] - lo.pos * t[2] ELSE 0
             den == IF range > 0 THEN range * t[2] ELSE 1
         IN  Pack(Lerp(lo.r, hi.r, num, den),
                  Lerp(lo.g, hi.g, num, den),
                  Lerp(lo.b, hi.b, num, den))

buildColorLUT(stops, cycling, background) ==
  [i \in 0..(LUT_SIZE - 1) |-> LutEntry(stops, cycling, background, i)]

\* getBackgroundABGR / bgABGR
getBackgroundABGR(background) == Pack(background[1], background[2], background[3])

(***************************************************************************)
(* LutSpec: the LUT builder applied to the registry's palettes and to      *)
(* short stop lists (positions non-decreasing, first at 0, last at 1).     *)
(***************************************************************************)
LutColours == {<<0, 0, 0>>, <<255, 255, 255>>, <<200, 40, 100>>}
LutBackgrounds == {<<0, 0, 0>>, <<255, 255, 255>>}
LutMiddles == {0, 30, 100}

Stop(pos, c) == [pos |-> pos, r |-> c[1], g |-> c[2], b |-> c[3]]

LutStopLists ==
  {<<Stop(0, a), Stop(PosDen, b)>> : a \in LutColours, b \in LutColours}
  \cup {<<Stop(0, x[1]), Stop(x[4], x[2]), Stop(PosDen, x[3])>> :
          x \in LutColours \X LutColours \X LutColours \X LutMiddles}

LutInputs ==
  [fn : {"lut"}, stops : LutStopLists, cycling : BOOLEAN, background : LutBackgrounds]
  \cup {[fn |-> "lut", stops |-> palettes[k].stops, cycling |-> palettes[k].cycling,
         background |-> palettes[k].background] : k \in PaletteKeys}

LutInit ==
  /\ fnIn \in LutInputs
  /\ fnOut = None
  /\ EngineOff

CallBuildColorLUT ==
  /\ fnIn.fn = "lut"
  /\ fnOut = None
  /\ fnOut' = buildColorLUT(fnIn.stops, fnIn.cycling, fnIn.background)
  /\ UNCHANGED <<fnIn, engineVars>>

LutNext == CallBuildColorLUT

LutSpec == LutInit /\ [][LutNext]_vars

LutBuilt == fnIn.fn = "lut" /\ fnOut # None

\* non-empty, positions non-decreasing, first at 0, last at 1
WellFormed(stops) ==
  /\ Len(stops) >= 1
  /\ stops[1].pos = 0
  /\ stops[Len(stops)].pos = PosDen
  /\ \A s \in 1..(Len(stops) - 1) : stops[s].pos <= stops[s + 1].pos

StopColour(stop) == Pack(stop.r, stop.g, stop.b)

\* the first stop at position 1
FirstAtOne(stops) ==
  stops[CHOOSE s \in 1..Len(stops) :
          /\ stops[s].pos = PosDen
          /\ \A u \in 1..Len(stops) : stops[u].pos = PosDen => s <= u]

BlackToWhite == <<Stop(0, <<0, 0, 0>>), Stop(PosDen, <<255, 255, 255>>)>>

\* C10 as stated: for a well-formed stop list the LUT has exactly 256 entries
\* and, for a non-cycling palette, entry 0 is the first stop's colour and entry
\* 255 the last stop's.
C10_LastStopAt255 ==
  (LutBuilt /\ WellFormed(fnIn.stops)) =>
    /\ DOMAIN fnOut = 0..255
    /\ ~fnIn.cycling =>
         /\ fnOut[0] = StopColour(fnIn.stops[1])
         /\ fnOut[255] = StopColour(fnIn.stops[Len(fnIn.stops)])

\* C10 amended: for a well-formed stop list the LUT has exactly 256 entries
\* and, for a non-cycling palette, entry 0 is the first stop's colour and entry
\* 255 the colour of the first stop at position 1 (the last stop's when no
\* earlier stop is at position 1); black@0, white@1 gives entry 128 within 1 of
\* (128,128,128).
C10_LutShape ==
  (LutBuilt /\ WellFormed(fnIn.stops)) =>
    /\ DOMAIN fnOut = 0..255
    /\ ~fnIn.cycling =>
         /\ fnOut[0] = StopColour(fnIn.stops[1])
         /\ fnOut[255] = StopColour(FirstAtOne(fnIn.stops))
         /\ fnIn.stops = BlackToWhite =>
              /\ fnOut[0] = Pack(0, 0, 0)
              /\ fnOut[255] = Pack(255, 255, 255)
              /\ Abs(PackR(fnOut[128]) - 128) <= 1
              /\ Abs(PackG(fnOut[128]) - 128) <= 1
              /\ Abs(PackB(fnOut[128]) - 128) <= 1

\* a non-cycling registry palette, built, its two ends different
C10_Witness ==
  /\ LutBuilt
  /\ ~fnIn.cycling
  /\ fnIn.stops = palettes.thermal.stops
  /\ fnOut[0] = Pack(0, 0, 0)
  /\ fnOut[255] = Pack(255, 250, 100)

\* the three channels of a packed pixel
Channels(px) == <<PackR(px), PackG(px), PackB(px)>>

\* entries from..to of a LUT go one way (never up, or never down) in channel ch
MonotoneChannel(lut, from, to, ch) ==
  \/ \A i \in from..(to - 1) : Channels(lut[i])[ch] <= Channels(lut[i + 1])[ch]
  \/ \A i \in from..(to - 1) : Channels(lut[i])[ch] >= Channels(lut[i + 1])[ch]

\* C11: for a cycling palette (stop list well-formed) entry 0 of the LUT is
\* the background colour, entry 40 is the first stop's colour, and in each of
\* R, G and B the entries 0..39, continued by entry 40, are monotone, so they
\* run from the background toward the first stop.
C11_CyclingFadeIn ==
  (LutBuilt /\ fnIn.cycling /\ WellFormed(fnIn.stops)) =>
    /\ fnOut[0] = getBackgroundABGR(fnIn.background)
    /\ fnOut[40] = StopColour(fnIn.stops[1])
    /\ \A ch \in 1..3 : MonotoneChannel(fnOut, 0, 40, ch)

\* a cycling registry palette on a white background, built: the band runs
\* down in red and green and stays at 255 in blue
C11_Witness ==
  /\ LutBuilt
  /\ fnIn.cycling
  /\ fnIn.stops = palettes.rainbowLight.stops
  /\ fnIn.background = <<255, 255, 255>>
  /\ Channels(fnOut[0]) = <<255, 255, 255>>
  /\ Channels(fnOut[20]) = <<226, 212, 255>>
  /\ Channels(fnOut[40]) = <<197, 168, 255>>

(***************************************************************************)
(* The engine: window, configuration, pointer, grid and buffers.           *)
(* Time is counted in frame periods (1000 / TARGET_FPS ms), burn speed in  *)
(* tenths, the diffusion counter in twentieths of a pass.                  *)
(***************************************************************************)
\* the glow multiplier "unlimited": a value no finite multiplier takes
Infinity == -1

\* isMobile(): a touch device, or innerWidth < 768
isMobile(w) == w.touch \/ w.w < 768

\* getPixelScale(): isMobile() ? 3 : 2
getPixelScale(w) == IF isMobile(w) THEN 3 ELSE 2

\* DIFFUSION_ITERS_MOBILE / DIFFUSION_ITERS_DESKTOP, getDiffusionIters()
getDiffusionIters(w) == IF isMobile(w) THEN 4 ELSE 6

\* a typed array holding the values of f, each computed once
Array(f) == f @@ <<>>

\* new Float32Array(n), new Uint32Array(n): n zeros, indexed from 0
Zeros(n) == Array([i \in 0..(n - 1) |-> 0])

\* four new typed arrays: allocations never made before
Alloc(next) ==
  [heat |-> next, heatSwap |-> next + 1, glowMask |-> next + 2, pixels |-> next + 3,
   next |-> next + 4]

\* the first allocation not made yet
NextAlloc == IF bufId = None THEN 1 ELSE bufId.next

\* the length of a typed array
Length(buf) == Cardinality(DOMAIN buf)

\* Math.ceil(Math.sqrt(n))
CeilSqrt(n) == LET r == FloorSqrt(n) IN IF r * r = n THEN r ELSE r + 1

isCycling(c) == palettes[c.palette].cycling

\* useGlowMask = glowMultiplier !== Infinity
useGlowMask(c) == c.glowMultiplier # Infinity

\* glowMaxGrid * pixelScale = brushRadius + bleedRadius + glowMultiplier * brushRadius
GlowMaxPx(c) ==
  IF useGlowMask(c)
    THEN c.brushRadius + c.bleedRadius + c.glowMultiplier * c.brushRadius
    ELSE 0

\* the pointer before any event
PointerStart == [x |-> -9999, y |-> -9999, active |-> FALSE]

\* what an operation leaves in `last`
Obs(op) ==
  [op |-> op, gridW |-> gridW, gridH |-> gridH, heat |-> heat, glowMask |-> glowMask,
   heatSwap |-> heatSwap, bufId |-> bufId, pixels |-> pixels, kernel |-> kernel,
   pixelScale |-> pixelScale, ptr |-> ptr, lastTime |-> lastTime,
   fracIters |-> fracIters, dt |-> 0, active |-> FALSE, iters |-> 0, paint |-> 0,
   prevPaint |-> -1,
   decay |-> DecayOne, diffused |-> <<>>, decayed |-> <<>>, glowDecayed |-> <<>>,
   painted |-> <<>>]

(***************************************************************************)
(* Set-up: the body of the component's main effect, the pen's top level.   *)
(***************************************************************************)
SetUp(w, c, pending) ==
  LET scale == getPixelScale(w)
      gw == CeilDiv(w.w, scale)
      gh == CeilDiv(w.h, scale)
  IN  /\ pixelScale' = scale
      /\ baseDiffusion' = getDiffusionIters(w)
      /\ gridW' = gw
      /\ gridH' = gh
      /\ heat' = Zeros(gw * gh)
      /\ heatSwap' = Zeros(gw * gh)
      /\ glowMask' = Zeros(gw * gh)
      /\ pixels' = Zeros(gw * gh)
      /\ bufId' = Alloc(NextAlloc)
      /\ kernel' = buildBrushKernel(c.brushRadius, c.bleedRadius, scale)
      /\ screenDiag' = CeilSqrt(gw * gw + gh * gh)
      /\ listening' = TRUE
      /\ lastTime' = 0
      /\ fracIters' = 0
      /\ rafCount' = rafCount + 1
      /\ frameId' = rafCount + 1
      /\ frames' = pending \cup {rafCount + 1}
      /\ phase' = "running"

(***************************************************************************)
(* Resize.                                                                 *)
(***************************************************************************)

\* faulty variant: the resize keeps the old buffer
ResizeCopy_Keep(old, oldW, oldH, newW, newH) == old

\* faulty variant: the copy reads the old buffer with the new row length
ResizeCopy_NewStride(old, oldW, oldH, newW, newH) ==
  Array([i \in 0..(newW * newH - 1) |->
     LET x == i % newW
         y == i \div newW
     IN  IF y < Min(oldH, newH) /\ x < Min(oldW, newW)
           THEN old[Min(y * newW + x, oldW * oldH - 1)]
           ELSE 0])

\* the copy loop of the resize handler: a new buffer of newW * newH zeros with
\* the overlap of old and new copied cell by cell
ResizeCopy(old, oldW, oldH, newW, newH) ==
  Array([i \in 0..(newW * newH - 1) |->
     LET x == i % newW
         y == i \div newW
     IN  IF y < Min(oldH, newH) /\ x < Min(oldW, newW)
           THEN old[y * oldW + x]
           ELSE 0])

\* the window is resized; the handler runs if it is registered
onResize(w) ==
  /\ win' = w
  /\ IF ~listening THEN UNCHANGED <<gridVars, bufVars>> ELSE
     LET scale == IF impl = "pen" THEN getPixelScale(w) ELSE pixelScale
         newW == CeilDiv(w.w, scale)
         newH == CeilDiv(w.h, scale)
     IN  /\ pixelScale' = scale
         /\ baseDiffusion' = IF impl = "pen" THEN getDiffusionIters(w) ELSE baseDiffusion
         /\ heat' = ResizeCopy(heat, gridW, gridH, newW, newH)
         /\ glowMask' = ResizeCopy(glowMask, gridW, gridH, newW, newH)
         /\ gridW' = newW
         /\ gridH' = newH
         /\ heatSwap' = Zeros(newW * newH)
         /\ pixels' = Zeros(newW * newH)
         /\ bufId' = Alloc(NextAlloc)
         /\ kernel' = IF impl = "pen"
                        THEN buildBrushKernel(cfg.brushRadius, cfg.bleedRadius, scale)
                        ELSE kernel
         /\ UNCHANGED screenDiag
  /\ last' = Obs("resize")
  /\ UNCHANGED <<impl, cfg, ptr, loopVars, schedVars, phase>>

(***************************************************************************)
(* Pointer events.                                                         *)
(***************************************************************************)
onPointerMove(x, y) ==
  /\ ptr' = IF listening THEN [x |-> x, y |-> y, active |-> TRUE] ELSE ptr
  /\ last' = Obs("move")
  /\ UNCHANGED <<impl, win, cfg, gridVars, bufVars, loopVars, schedVars, phase>>

onPointerLeave ==
  /\ ptr' = IF listening THEN [ptr EXCEPT !.active = FALSE] ELSE ptr
  /\ last' = Obs("leave")
  /\ UNCHANGED <<impl, win, cfg, gridVars, bufVars, loopVars, schedVars, phase>>

(***************************************************************************)
(* Configuration changes.  The component's effect depends on every         *)
(* property: a change runs its clean-up and then its body again.  The pen  *)
(* stores the value and rebuilds the kernel (the LUT is a function of the  *)
(* palette here).                                                          *)
(***************************************************************************)
\* faulty variant: the component's effect body runs under reduced motion too
ConfigChange_NoGuard(c) ==
  /\ phase # "unmounted"
  /\ cfg' = c
  /\ IF impl = "pen"
       THEN /\ kernel' = buildBrushKernel(c.brushRadius, c.bleedRadius, pixelScale)
            /\ UNCHANGED <<pixelScale, baseDiffusion, screenDiag, gridW, gridH,
                           bufVars, loopVars, listening, frames, frameId, rafCount,
                           phase>>
       ELSE SetUp(win, c, frames \ {frameId})
  /\ last' = Obs("config")
  /\ UNCHANGED <<impl, win, ptr, prefersReducedMotion>>

ConfigChange(c) ==
  /\ phase # "unmounted"
  /\ cfg' = c
  /\ IF impl = "pen"
       THEN /\ kernel' = buildBrushKernel(c.brushRadius, c.bleedRadius, pixelScale)
            /\ UNCHANGED <<pixelScale, baseDiffusion, screenDiag, gridW, gridH,
                           bufVars, loopVars, listening, frames, frameId, rafCount,
                           phase>>
       ELSE IF prefersReducedMotion
         THEN \* the effect body returns at its first line, as it did before
              UNCHANGED <<gridVars, bufVars, loopVars, listening, frames, frameId,
                          rafCount, phase>>
         ELSE \* the clean-up of the running effect, then its body again
              SetUp(win, c, frames \ {frameId})
  /\ last' = Obs("config")
  /\ UNCHANGED <<impl, win, ptr, prefersReducedMotion>>

\* faulty variant: the clean-up removes the listeners and leaves the frame
\* request alone
Unmount_NoCancel ==
  /\ impl = "component"
  /\ phase # "unmounted"
  /\ phase' = "unmounted"
  /\ listening' = FALSE
  /\ last' = Obs("unmount")
  /\ UNCHANGED <<envVars, gridVars, bufVars, loopVars, prefersReducedMotion,
                 frames, frameId, rafCount>>

\* the component is unmounted: the clean-up of the effect, if it returned one
Unmount ==
  /\ impl = "component"
  /\ phase # "unmounted"
  /\ phase' = "unmounted"
  /\ listening' = FALSE
  /\ frames' = IF phase = "running" THEN frames \ {frameId} ELSE frames
  /\ last' = Obs("unmount")
  /\ UNCHANGED <<envVars, gridVars, bufVars, loopVars, prefersReducedMotion,
                 frameId, rafCount>>

\* what the component renders: null under reduced motion, else the canvas
CanvasRendered == phase # "unmounted" /\ ~prefersReducedMotion

(***************************************************************************)
(* The frame: tick(time).  Its steps are operators on buffers; TickStep    *)
(* runs them in the order of the code and returns the new buffers with     *)
(* the frame's locals.                                                     *)
(***************************************************************************)
\* faulty variant: only the flat index is tested against the buffer length
InGrid_FlatIndex(x, y) == y * gridW + x >= 0 /\ y * gridW + x < gridW * gridH

\* sx >= 0 && sx < gridW && sy >= 0 && sy < gridH
InGrid(x, y) == x >= 0 /\ x < gridW /\ y >= 0 /\ y < gridH

\* the cells the sample loop reads (solid core only) and the paint loop
\* writes, each with the index the loop computes for it
KernelAccess(gx, gy, coreOnly) ==
  {[x |-> gx + kernel[n].dx, y |-> gy + kernel[n].dy,
    idx |-> (gy + kernel[n].dy) * gridW + (gx + kernel[n].dx)] :
     n \in {j \in 1..Len(kernel) :
              /\ coreOnly => ~(kernel[j].w < WeightOne)
              /\ InGrid(gx + kernel[j].dx, gy + kernel[j].dy)}}

\* the sum of buf over a set of cell indices
RECURSIVE SumOver(_, _)
SumOver(buf, cells) ==
  IF cells = {} THEN 0
  ELSE LET i == CHOOSE j \in cells : TRUE
       IN  buf[i] + SumOver(buf, cells \ {i})

\* burnSpeedToAccum(burnSpeed) * dt, burn speed in tenths
AccumDt(burn, dt) == RoundDiv((5 + 2 * burn) * dt * HeatOne, 9000)

\* step 1: the mean heat under the kernel's solid core plus the accumulation,
\* clamped to 1 unless the palette cycles
SampleCore(gx, gy) ==
  {(gy + kernel[i].dy) * gridW + (gx + kernel[i].dx) :
     i \in {j \in 1..Len(kernel) :
              /\ ~(kernel[j].w < WeightOne)
              /\ InGrid(gx + kernel[j].dx, gy + kernel[j].dy)}}

\* faulty variant: the paint value is the sampled mean alone
PaintIntensity_NoAccum(h, gx, gy, dt) ==
  LET core == SampleCore(gx, gy)
      cnt == Cardinality(core)
  IN  IF cnt > 0 THEN RoundDiv(SumOver(h, core), cnt) ELSE 0

PaintIntensity(h, gx, gy, dt) ==
  LET core == SampleCore(gx, gy)
      cnt == Cardinality(core)
      raw == (IF cnt > 0 THEN RoundDiv(SumOver(h, core), cnt) ELSE 0)
             + AccumDt(cfg.burnSpeed, dt)
  IN  IF isCycling(cfg) THEN raw ELSE Min(HeatOne, raw)

\* faulty variant: the neighbour sum is not scaled by 0.25
DiffuseCell_Unscaled(c, l, r, u, d) == RoundDiv(c + (l + r + u + d), 2)

\* step 2: one pass, dst[idx] = c + ((l + r + u + d) * 0.25 - c) * DIFFUSION_FACTOR
DiffuseCell(c, l, r, u, d) == RoundDiv(4 * c + (l + r + u + d), 8)

\* faulty variant: a neighbour outside the grid counts as 0
DiffusePass_ZeroEdges(src, w, h) ==
  Array([idx \in 0..(w * h - 1) |->
     LET x == idx % w
         y == idx \div w
         c == src[idx]
         l == IF x > 0 THEN src[idx - 1] ELSE 0
         r == IF x < w - 1 THEN src[idx + 1] ELSE 0
         u == IF y > 0 THEN src[idx - w] ELSE 0
         d == IF y < h - 1 THEN src[idx + w] ELSE 0
     IN  DiffuseCell(c, l, r, u, d)])

DiffusePass(src, w, h) ==
  Array([idx \in 0..(w * h - 1) |->
     LET x == idx % w
         y == idx \div w
         c == src[idx]
         l == IF x > 0 THEN src[idx - 1] ELSE c
         r == IF x < w - 1 THEN src[idx + 1] ELSE c
         u == IF y > 0 THEN src[idx - w] ELSE c
         d == IF y < h - 1 THEN src[idx + w] ELSE c
     IN  DiffuseCell(c, l, r, u, d)])

\* faulty variant: the result of the last pass stays in the buffer it was
\* written to
RECURSIVE Diffuse_NoCopyBack(_, _, _)
Diffuse_NoCopyBack(src, dst, passes) ==
  IF passes = 0 THEN [src |-> src, dst |-> dst]
  ELSE LET next == DiffusePass(src, gridW, gridH)
       IN  IF Length(next) # Length(src) THEN None
           ELSE IF passes = 1 THEN [src |-> src, dst |-> next]
           ELSE Diffuse_NoCopyBack(next, src, passes - 1)

\* the pass loop with its swap of src and dst, and heat.set(src) after it
RECURSIVE Diffuse(_, _, _)
Diffuse(src, dst, passes) ==
  IF passes = 0 THEN [src |-> src, dst |-> dst]
  ELSE LET next == DiffusePass(src, gridW, gridH)
       \* (the test makes this pass be computed before the next one starts)
       IN  IF Length(next) = Length(src) THEN Diffuse(next, src, passes - 1) ELSE None

\* diffusionIters per frame, in twentieths: base * (0.5 + burnSpeed * 1.5)
DiffusionIters20(burn) == baseDiffusion * (10 + 3 * burn)

\* faulty variant: the remainder is dropped
FracAdvance_DropCarry(frac, perFrame, dt) ==
  [iters |-> (frac + perFrame * dt) \div 20, fracIters |-> 0]

\* fracIters += diffusionIters * dt; iters = floor(fracIters); fracIters -= iters
FracAdvance(frac, perFrame, dt) ==
  [iters |-> (frac + perFrame * dt) \div 20, fracIters |-> (frac + perFrame * dt) % 20]

\* step 3: FIXED_DECAY_RATE = 0.5 ^ (1 / 1801), and its powers
FIXED_DECAY_RATE == DecayOne - RoundDiv(DecayOne * 3848, 10000000)

RECURSIVE Pow(_, _)
Pow(base, e) == IF e = 0 THEN DecayOne ELSE MulFix(Pow(base, e - 1), base, DecayOne)

\* faulty variant: the factor is not squared when the pointer is idle
DecayFactor_IdleSame(dt, cycling, active) ==
  Pow(FIXED_DECAY_RATE, dt * (IF cycling THEN 2 ELSE 1))

\* decay = pow(FIXED_DECAY_RATE, dt * (isCycling ? 2 : 1));
\* if (!ptr.active) decay = pow(decay, 2)
DecayFactor(dt, cycling, active) ==
  LET decay == Pow(FIXED_DECAY_RATE, dt * (IF cycling THEN 2 ELSE 1))
  IN  IF active THEN decay ELSE MulFix(decay, decay, DecayOne)

\* faulty variant: the store truncates toward zero
DecayCell_Truncate(v, decay) == (v * decay) \div DecayOne

\* heat[i] *= decay
DecayCell(v, decay) == MulFix(v, decay, DecayOne)

\* faulty variant: the factor is divided out instead of multiplied in
DecayBuf_Divide(buf, decay) == Array([i \in DOMAIN buf |-> MulFix(buf[i], DecayOne, decay)])

DecayBuf(buf, decay) == Array([i \in DOMAIN buf |-> DecayCell(buf[i], decay)])

\* faulty variant: the paint loop overwrites instead of max-blending
RECURSIVE PaintLoop_Overwrite(_, _, _, _, _)
PaintLoop_Overwrite(h, gx, gy, paintIntensity, n) ==
  IF n = 0 THEN h
  ELSE LET prev == PaintLoop_Overwrite(h, gx, gy, paintIntensity, n - 1)
           px == gx + kernel[n].dx
           py == gy + kernel[n].dy
       IN  IF InGrid(px, py)
             THEN [prev EXCEPT ![py * gridW + px] =
                     MulFix(paintIntensity, kernel[n].w, WeightOne)]
             ELSE prev

\* step 4: the paint loop over the first n kernel entries, max-blend
RECURSIVE PaintLoop(_, _, _, _, _)
PaintLoop(h, gx, gy, paintIntensity, n) ==
  IF n = 0 THEN h
  ELSE LET prev == PaintLoop(h, gx, gy, paintIntensity, n - 1)
           px == gx + kernel[n].dx
           py == gy + kernel[n].dy
           idx == py * gridW + px
           val == MulFix(paintIntensity, kernel[n].w, WeightOne)
       IN  IF InGrid(px, py) /\ val > prev[idx]
             THEN [prev EXCEPT ![idx] = val]
             ELSE prev

\* faulty variant: the decay comes after the paint loop
PaintHeat_ThenDecay(h, gx, gy, paintIntensity) ==
  DecayBuf(PaintLoop(h, gx, gy, paintIntensity, Len(kernel)), FIXED_DECAY_RATE)

PaintHeat(h, gx, gy, paintIntensity) ==
  PaintLoop(h, gx, gy, paintIntensity, Len(kernel))

\* glowPaintR = min(ceil(glowMaxGrid), ceil(screenDiag)); the component computes
\* it when the effect is set up, the pen in every frame
GlowPaintR ==
  Min(CeilDiv(GlowMaxPx(cfg), pixelScale),
      IF impl = "pen" THEN CeilSqrt(gridW * gridW + gridH * gridH) ELSE screenDiag)

\* the value written at squared distance d2: 1 up to glowFadeStart, then (1 - t)^3
GlowValue(d2) ==
  LET G == GlowMaxPx(cfg)
      s2 == pixelScale * pixelScale
  IN  IF 100 * d2 * s2 > 49 * G * G
        THEN LET u == MulFix((G * LenOne - Sqrt(d2) * pixelScale) * 10,
                             WeightOne, 3 * G * LenOne)
             IN  MulFix(MulFix(u, u, WeightOne), u, WeightOne)
        ELSE WeightOne

\* the cells the glow loop visits, each with the index it computes
GlowAccess(gx, gy) ==
  {[x |-> x, y |-> y, idx |-> y * gridW + x] :
     x \in Max(0, gx - GlowPaintR)..Min(gridW - 1, gx + GlowPaintR),
     y \in Max(0, gy - GlowPaintR)..Min(gridH - 1, gy + GlowPaintR)}

\* faulty variant: every cell of the bounding box is set to 1
PaintGlow_WholeBox(g, gx, gy) ==
  Array([idx \in DOMAIN g |->
     IF \E a \in GlowAccess(gx, gy) : a.idx = idx THEN WeightOne ELSE g[idx]])

\* the glow loop over the bounding box of the glow radius
PaintGlow(g, gx, gy) ==
  LET R == GlowPaintR
      G == GlowMaxPx(cfg)
  IN  Array([idx \in DOMAIN g |->
         LET x == idx % gridW
             y == idx \div gridW
             d2 == (x - gx) * (x - gx) + (y - gy) * (y - gy)
         IN  IF /\ y >= Max(0, gy - R) /\ y <= Min(gridH - 1, gy + R)
                /\ x >= Max(0, gx - R) /\ x <= Min(gridW - 1, gx + R)
                /\ d2 * pixelScale * pixelScale <= G * G
                /\ GlowValue(d2) > g[idx]
               THEN GlowValue(d2)
               ELSE g[idx]])

\* step 5: the value shown, its threshold, its LUT index
PaletteLUT ==
  [k \in PaletteKeys |->
     buildColorLUT(palettes[k].stops, palettes[k].cycling, palettes[k].background)]

\* faulty variant: the mask is applied whatever the glow multiplier
Shown_AlwaysMasked(hv, gv) == MulFix(hv, Min(WeightOne, gv), WeightOne)

\* v = heat[i] * (useGlowMask ? min(1, glowMask[i]) : 1)
Shown(hv, gv) ==
  IF useGlowMask(cfg) THEN MulFix(hv, Min(WeightOne, gv), WeightOne) ELSE hv

\* v > threshold, threshold = isCycling ? 0.015 : 0.002
AboveThreshold(v) == v > ((IF isCycling(cfg) THEN 15 ELSE 2) * HeatOne) \div 1000

\* the integer part of v * 255
Raw255(v) == (v \div HeatOne) * 255 + ((v % HeatOne) * 255) \div HeatOne

\* x | 0 for a non-negative integer x = hi * 65536 + lo below 2^32: the
\* 32-bit two's complement reading of its low 32 bits
ToInt32(hi, lo) ==
  IF hi < 32768 THEN hi * 65536 + lo ELSE (hi - 65536) * 65536 + lo

\* faulty variant: the colour band is entered without the shift by two bits
LutIndexOf_NoShift(raw, cycling) ==
  LET fadeIn == FADE_IN(cycling)
  IN  IF cycling
        THEN IF raw <= fadeIn THEN raw
             ELSE fadeIn + ((raw - fadeIn) % (LUT_SIZE - fadeIn))
        ELSE Min(255, raw)

\* the index read from the LUT for raw = (v * 255) | 0; raw - fadeIn is
\* positive where it is shifted, so >> 2 is the quotient by 4
LutIndexOf(raw, cycling) ==
  LET fadeIn == FADE_IN(cycling)
  IN  IF cycling
        THEN IF raw <= fadeIn THEN raw
             ELSE fadeIn + (((raw - fadeIn) \div 4) % (LUT_SIZE - fadeIn))
        ELSE Min(255, raw)

LutIndex(v) ==
  LutIndexOf(ToInt32(Raw255(v) \div 65536, Raw255(v) % 65536), isCycling(cfg))

\* faulty variant: every cell is drawn from the LUT
RenderPixel_NoThreshold(hv, gv) == PaletteLUT[cfg.palette][LutIndex(Shown(hv, gv))]

RenderPixel(hv, gv) ==
  IF AboveThreshold(Shown(hv, gv))
    THEN PaletteLUT[cfg.palette][LutIndex(Shown(hv, gv))]
    ELSE getBackgroundABGR(palettes[cfg.palette].background)

\* the else branch of the render loop: if (heat[i] < 0) heat[i] = 0
RenderHeat(hv, gv) ==
  IF ~AboveThreshold(Shown(hv, gv)) /\ hv < 0 THEN 0 ELSE hv

\* faulty variant: dt without the clamp
FrameDt_Unclamped(lastT, time) == time - (IF lastT = 0 THEN time ELSE lastT)

\* if (lastTime === 0) lastTime = time; dt = min((time - lastTime) / frame period, 3)
FrameDt(lastT, time) == Min(time - (IF lastT = 0 THEN time ELSE lastT), 3)

\* one frame at `time`, from the buffers and loop variables in s
TickStep(s, time) ==
  LET dt == FrameDt(s.lastTime, time)
      gx == ptr.x \div pixelScale
      gy == ptr.y \div pixelScale
      paintIntensity == IF ptr.active THEN PaintIntensity(s.heat, gx, gy, dt) ELSE 0
      counter == FracAdvance(s.fracIters, DiffusionIters20(cfg.burnSpeed), dt)
      iters == counter.iters
      run == Diffuse(s.heat, s.heatSwap, iters)
      \* after the loop src is the result; heat.set(src) copies it when src is heatSwap
      diffused == run.src
      swap == IF iters % 2 = 1 THEN run.src ELSE run.dst
      decay == DecayFactor(dt, isCycling(cfg), ptr.active)
      decayed == DecayBuf(diffused, decay)
      glowDecayed == IF useGlowMask(cfg) THEN DecayBuf(s.glowMask, decay) ELSE s.glowMask
      painted == IF ptr.active THEN PaintHeat(decayed, gx, gy, paintIntensity) ELSE decayed
      glowPainted == IF ptr.active /\ useGlowMask(cfg)
                       THEN PaintGlow(glowDecayed, gx, gy)
                       ELSE glowDecayed
  IN  [heat |-> Array([i \in DOMAIN painted |-> RenderHeat(painted[i], glowPainted[i])]),
       heatSwap |-> swap,
       glowMask |-> glowPainted,
       pixels |-> Array([i \in DOMAIN painted |-> RenderPixel(painted[i], glowPainted[i])]),
       lastTime |-> time,
       fracIters |-> counter.fracIters,
       dt |-> dt, iters |-> iters, paint |-> paintIntensity, decay |-> decay,
       diffused |-> diffused, decayed |-> decayed, glowDecayed |-> glowDecayed,
       painted |-> painted]

Now == [heat |-> heat, heatSwap |-> heatSwap, glowMask |-> glowMask, pixels |-> pixels,
        lastTime |-> lastTime, fracIters |-> fracIters]

\* the requested frame callback `id` runs, `gap` frame periods after the
\* previous one, and requests its successor
tick(id, gap) ==
  /\ id \in frames
  /\ rafCount' = rafCount + 1
  /\ frames' = (frames \ {id}) \cup {rafCount + 1}
  /\ frameId' = IF impl = "component" THEN rafCount + 1 ELSE frameId
  /\ \E r \in {TickStep(Now, lastTime + gap)} :
         /\ heat' = r.heat
         /\ heatSwap' = r.heatSwap
         /\ glowMask' = r.glowMask
         /\ pixels' = r.pixels
         /\ lastTime' = r.lastTime
         /\ fracIters' = r.fracIters
         /\ last' = [Obs("tick") EXCEPT
                       !.dt = r.dt, !.active = ptr.active, !.iters = r.iters,
                       !.paint = r.paint, !.decay = r.decay, !.diffused = r.diffused,
                       !.decayed = r.decayed, !.glowDecayed = r.glowDecayed,
                       !.painted = r.painted,
                       \* the paint value of the frame just before, if this frame
                       \* follows an active frame with no event between
                       !.prevPaint = IF last.op = "tick" /\ last.active
                                       THEN last.paint ELSE -1]
  /\ UNCHANGED <<envVars, gridVars, bufId, phase, prefersReducedMotion, listening>>

(***************************************************************************)
(* Spec: the engine under windows, configurations and pointer positions    *)
(* small enough to enumerate.                                              *)
(***************************************************************************)
MaxSteps == 4
HoldFrames == 130

WindowSizes == {<<9, 6>>, <<12, 9>>}
Windows == {[w |-> d[1], h |-> d[2], touch |-> FALSE] : d \in WindowSizes}

Palettes == {"thermal", "rainbowDark"}
BrushRadii == {3, 6}
BleedRadii == {0, 3}
GlowMultipliers == {Infinity, 1}
BurnSpeeds == {5, 10}

InitConfigs ==
  {[palette |-> "thermal", brushRadius |-> 3, bleedRadius |-> 3,
    glowMultiplier |-> Infinity, burnSpeed |-> 10],
   [palette |-> "rainbowDark", brushRadius |-> 6, bleedRadius |-> 0,
    glowMultiplier |-> 1, burnSpeed |-> 10]}

\* the configurations one control (one property) away from c
OneChange(c) ==
  ({[c EXCEPT !.palette = v] : v \in Palettes}
   \cup {[c EXCEPT !.brushRadius = v] : v \in BrushRadii}
   \cup {[c EXCEPT !.bleedRadius = v] : v \in BleedRadii}
   \cup {[c EXCEPT !.glowMultiplier = v] : v \in GlowMultipliers}
   \cup {[c EXCEPT !.burnSpeed = v] : v \in BurnSpeeds}) \ {c}

PointerSpots == {<<4, 4>>, <<10, 1>>}
HoldSpot == <<4, 4>>
Gaps == {1, 5}

\* the state after mount / page load in one of `windows`, with `budget` steps
\* to come
EngineInit(windows, budget) ==
  /\ fnIn = None /\ fnOut = None
  /\ impl \in {"component", "pen"}
  /\ prefersReducedMotion \in (IF impl = "component" THEN BOOLEAN ELSE {FALSE})
  /\ win \in windows
  /\ cfg \in InitConfigs
  /\ ptr = PointerStart
  /\ lastTime = 0
  /\ fracIters = 0
  /\ IF prefersReducedMotion
       THEN \* the effect returns before it allocates, listens or requests a frame
            /\ pixelScale = 0 /\ baseDiffusion = 0 /\ screenDiag = 0
            /\ gridW = 0 /\ gridH = 0
            /\ heat = None /\ heatSwap = None /\ glowMask = None /\ pixels = None
            /\ bufId = None
            /\ kernel = None
            /\ listening = FALSE
            /\ frames = {} /\ frameId = 0 /\ rafCount = 0
            /\ phase = "stopped"
       ELSE /\ pixelScale = getPixelScale(win)
            /\ baseDiffusion = getDiffusionIters(win)
            /\ gridW = CeilDiv(win.w, pixelScale)
            /\ gridH = CeilDiv(win.h, pixelScale)
            /\ heat = Zeros(gridW * gridH)
            /\ heatSwap = Zeros(gridW * gridH)
            /\ glowMask = Zeros(gridW * gridH)
            /\ pixels = Zeros(gridW * gridH)
            /\ bufId = Alloc(1)
            /\ kernel = buildBrushKernel(cfg.brushRadius, cfg.bleedRadius, pixelScale)
            /\ screenDiag = CeilSqrt(gridW * gridW + gridH * gridH)
            /\ listening = TRUE
            /\ frames = {1} /\ frameId = (IF impl = "component" THEN 1 ELSE 0)
            /\ rafCount = 1
            /\ phase = "running"
  /\ last = [Obs("init") EXCEPT !.heat = <<>>, !.glowMask = <<>>, !.heatSwap = <<>>,
                                !.pixels = <<>>, !.kernel = <<>>, !.pixelScale = 0,
                                !.bufId = <<>>, !.gridW = 0, !.gridH = 0]
  /\ used = [steps |-> 0, hold |-> 0, max |-> budget]

Init == EngineInit(Windows, MaxSteps)

\* a stroke held on one spot is not interrupted
Holding == used.hold > 0 /\ used.hold < HoldFrames

Step ==
  /\ ~Holding
  /\ used.steps < used.max
  /\ used' = [used EXCEPT !.steps = @ + 1]
  /\ UNCHANGED fnVars

Resize == \E w \in Windows : w # win /\ onResize(w) /\ Step

PointerMove == \E p \in PointerSpots : onPointerMove(p[1], p[2]) /\ Step

PointerLeave == ptr.active /\ onPointerLeave /\ Step

SetConfig == \E c \in OneChange(cfg) : ConfigChange(c) /\ Step

Frame ==
  /\ \E id \in frames : \E gap \in (IF lastTime = 0 THEN {1} ELSE Gaps) : tick(id, gap)
  /\ Step

Teardown == Unmount /\ Step

\* the frames of a stroke that starts the session and rests on one spot,
\* each a full clamp (3 frame periods or more) after the previous one
HoldFrame ==
  /\ ptr.active /\ <<ptr.x, ptr.y>> = HoldSpot
  /\ used.hold < HoldFrames
  /\ used.hold = 0 => used.steps = 1
  /\ \E id \in frames : tick(id, IF lastTime = 0 THEN 1 ELSE 5)
  /\ used' = [used EXCEPT !.hold = @ + 1]
  /\ UNCHANGED fnVars

Next ==
  \/ Frame
  \/ HoldFrame
  \/ Resize
  \/ PointerMove
  \/ PointerLeave
  \/ SetConfig
  \/ Teardown

Spec == Init /\ [][Next]_vars

(***************************************************************************)
(* WideSpec: the engine with a window on the desktop side of the 768 px    *)
(* breakpoint as well (pixel scale 2, a grid of 384 cells), over short     *)
(* runs.                                                                   *)
(***************************************************************************)
MaxWideSteps == 2

WideWindows == Windows \cup {[w |-> 768, h |-> 2, touch |-> FALSE]}

WideInit == EngineInit(WideWindows, MaxWideSteps)

WideResize == \E w \in WideWindows : w # win /\ onResize(w) /\ Step

WideNext ==
  \/ Frame
  \/ WideResize
  \/ PointerMove
  \/ PointerLeave
  \/ SetConfig
  \/ Teardown

WideSpec == WideInit /\ [][WideNext]_vars

(***************************************************************************)
(* CoolSpec: one stroke held on a spot for HoldFrames frames, then the     *)
(* pointer leaves and the loop runs on, its frames alternately 3 (the      *)
(* clamp) and 1 frame period apart.                                        *)
(***************************************************************************)
CoolFrames == 4200

CoolWindows == {[w |-> 12, h |-> 9, touch |-> FALSE]}

CoolInit == EngineInit(CoolWindows, 2 + CoolFrames)

CoolMove == used.steps = 0 /\ onPointerMove(HoldSpot[1], HoldSpot[2]) /\ Step

CoolLeave == ptr.active /\ used.hold = HoldFrames /\ onPointerLeave /\ Step

\* a frame after the pointer has left
CoolFrame ==
  /\ ~ptr.active /\ used.steps >= 2
  /\ \E id \in frames : tick(id, IF used.steps % 2 = 0 THEN 5 ELSE 1)
  /\ Step

CoolNext ==
  \/ CoolMove
  \/ HoldFrame
  \/ CoolLeave
  \/ CoolFrame

CoolSpec == CoolInit /\ [][CoolNext]_vars

(***************************************************************************)
(* GrowSpec: the engine mounted in a window of one grid cell or of 4 x 3    *)
(* cells and resized between the two, over short runs.                     *)
(***************************************************************************)
MaxGrowSteps == 3

GrowWindows == {[w |-> 3, h |-> 3, touch |-> FALSE], [w |-> 12, h |-> 9, touch |-> FALSE]}

GrowInit == EngineInit(GrowWindows, MaxGrowSteps)

GrowResize == \E w \in GrowWindows : w # win /\ onResize(w) /\ Step

GrowNext ==
  \/ Frame
  \/ GrowResize
  \/ PointerMove
  \/ PointerLeave
  \/ SetConfig
  \/ Teardown

GrowSpec == GrowInit /\ [][GrowNext]_vars

(***************************************************************************)
(* Properties of the engine.                                               *)
(***************************************************************************)
Cells == 0..(gridW * gridH - 1)
CellX(i) == i % gridW
CellY(i) == i \div gridW

\* the cell is in the overlap of the grid before the last operation and the grid now
InOverlap(i) == CellX(i) < Min(last.gridW, gridW) /\ CellY(i) < Min(last.gridH, gridH)

\* the index the cell had in the grid before the last operation
OldIndex(i) == CellY(i) * last.gridW + CellX(i)

\* C1: after a resize, every cell in the overlap of the old and the new grid holds
\* its heat and glow-mask value from before the resize, and every other cell of
\* the new grid holds 0 - whatever frames and resizes came before.
C1_ResizePreserves ==
  last.op = "resize" =>
    \A i \in Cells :
      IF InOverlap(i)
        THEN /\ heat[i] = last.heat[OldIndex(i)]
             /\ glowMask[i] = last.glowMask[OldIndex(i)]
        ELSE heat[i] = 0 /\ glowMask[i] = 0

\* a resize of a painted grid that changes the row length, with heat and glow kept
\* in the overlap and new cells outside it, after earlier frames and a resize
C1_Witness ==
  /\ last.op = "resize"
  /\ used.hold = HoldFrames /\ used.steps >= 3
  /\ gridW > last.gridW
  /\ \E i \in Cells : InOverlap(i) /\ CellY(i) > 0 /\ heat[i] > 0 /\ glowMask[i] > 0
  /\ \E i \in Cells : ~InOverlap(i)

\* C2: the four buffers always have length gridW * gridH; a frame leaves every
\* buffer the allocation and the length it was, a resize replaces all four.
C2_BufferLengths ==
  /\ phase = "running" =>
       /\ Length(heat) = gridW * gridH
       /\ Length(heatSwap) = gridW * gridH
       /\ Length(glowMask) = gridW * gridH
       /\ Length(pixels) = gridW * gridH
  /\ last.op = "tick" =>
       /\ bufId = last.bufId
       /\ gridW = last.gridW /\ gridH = last.gridH
       /\ Length(heat) = Length(last.heat)
       /\ Length(heatSwap) = Length(last.heatSwap)
       /\ Length(glowMask) = Length(last.glowMask)
  /\ (last.op = "resize" /\ listening) =>
       {bufId.heat, bufId.heatSwap, bufId.glowMask, bufId.pixels}
         \cap {last.bufId.heat, last.bufId.heatSwap, last.bufId.glowMask,
               last.bufId.pixels} = {}

\* a frame with diffusion passes and painting, on a grid that a resize has changed
C2_Witness ==
  /\ last.op = "tick" /\ last.iters > 0 /\ last.active
  /\ bufId.heat > 1
  /\ Length(heat) = 6
  /\ \E i \in Cells : heat[i] > 0

\* the kernel entries aimed at cell i by the last frame
Targets(i) ==
  {n \in 1..Len(kernel) :
     /\ InGrid(ptr.x \div pixelScale + kernel[n].dx, ptr.y \div pixelScale + kernel[n].dy)
     /\ (ptr.y \div pixelScale + kernel[n].dy) * gridW
          + (ptr.x \div pixelScale + kernel[n].dx) = i}

PaintValue(n) == MulFix(last.paint, kernel[n].w, WeightOne)

\* C3: in the paint step of an active frame a cell aimed at by a kernel entry of
\* weight w ends at max(h, paint * w), h its value before the step; no cell ends
\* lower than it was; a cell no entry aims at is unchanged.
C3_MaxBlend ==
  (last.op = "tick" /\ last.active) =>
    \A i \in Cells :
      /\ last.painted[i] >= last.decayed[i]
      /\ \A n \in Targets(i) :
           last.painted[i] = Max(last.decayed[i], PaintValue(n))
      /\ Targets(i) = {} => last.painted[i] = last.decayed[i]

\* a paint step that raises one cell, keeps another cell's larger value, and
\* leaves a third cell alone
C3_Witness ==
  /\ last.op = "tick" /\ last.active
  /\ \E i \in Cells : \E n \in Targets(i) :
       PaintValue(n) > last.decayed[i] /\ last.decayed[i] > 0
  /\ \E i \in Cells : \E n \in Targets(i) :
       PaintValue(n) < last.decayed[i] /\ PaintValue(n) > 0
  /\ \E i \in Cells : Targets(i) = {}

\* C6 (as stated): every heat cell is >= 0, and <= 1 whenever the palette does
\* not cycle, in every reachable state
C6_HeatRange ==
  phase = "running" =>
    \A i \in Cells :
      /\ heat[i] >= 0
      /\ ~isCycling(cfg) => heat[i] <= HeatOne

\* C7 (as stated): the heat buffer holds the same values right after a
\* configuration change as right before it
C7_ConfigKeepsHeat ==
  last.op = "config" => heat = last.heat

\* the pointer's grid cell
PointerGX == ptr.x \div pixelScale
PointerGY == ptr.y \div pixelScale
PointerCell == PointerGY * gridW + PointerGX

\* the last operation was a frame with the pointer active over a cell of the
\* grid, and the heat buffer was all zero when the frame began
FirstPaint ==
  /\ last.op = "tick" /\ last.active
  /\ InGrid(PointerGX, PointerGY)
  /\ \A i \in Cells : last.heat[i] = 0

\* the kernel's centre entry has weight 1
CentreWeightOne ==
  \E n \in 1..Len(kernel) :
    kernel[n].dx = 0 /\ kernel[n].dy = 0 /\ kernel[n].w = WeightOne

\* C12 (as stated): one frame with the pointer active over an in-grid cell of
\* an all-zero heat buffer leaves, after the paint step, a strictly positive
\* value in the pointer's cell, equal to the accumulation term times the
\* kernel's centre weight 1.
C12_FirstPaintPositive ==
  FirstPaint =>
    /\ CentreWeightOne
    /\ last.painted[PointerCell] = AccumDt(cfg.burnSpeed, last.dt)
    /\ last.painted[PointerCell] > 0

\* C12 amended: the same for a frame whose dt is positive, that is, any frame
\* but the first after set-up; the first frame has dt = 0, its accumulation
\* term is 0 and the pointer's cell stays 0.
C12_FirstPaint ==
  FirstPaint =>
    /\ CentreWeightOne
    /\ last.painted[PointerCell] = AccumDt(cfg.burnSpeed, last.dt)
    /\ last.dt > 0 => last.painted[PointerCell] > 0
    /\ last.dt = 0 => last.painted[PointerCell] = 0

\* burn speed 0.5, a frame one period after the previous one, over a zero
\* buffer: the pointer's cell holds 1.5 / 900
C12_Witness ==
  /\ FirstPaint
  /\ cfg.burnSpeed = 5 /\ last.dt = 1
  /\ last.painted[PointerCell] = RoundDiv(15 * HeatOne, 9000)
  /\ heat[PointerCell] > 0

\* C13: whatever the gap between two frames, the frame's dt is at most 3 (and
\* not negative), so it runs at most floor(carried remainder + 3 * base *
\* (0.5 + 1.5 * burnSpeed)) diffusion passes, and its decay factor, and every
\* cell after its decay step, is not below what three frame periods give.
C13_DtClamp ==
  last.op = "tick" =>
    /\ last.dt >= 0 /\ last.dt <= 3
    /\ 20 * last.iters <= last.fracIters + 3 * baseDiffusion * (10 + 3 * cfg.burnSpeed)
    /\ last.decay >= DecayFactor(3, isCycling(cfg), last.active)
    /\ \A i \in Cells :
         last.decayed[i] >=
           DecayCell(last.diffused[i], DecayFactor(3, isCycling(cfg), last.active))

\* a frame 5 periods after the previous one, pointer idle, heat on the grid:
\* dt is 3 and the passes are those of 3 periods
C13_Witness ==
  /\ last.op = "tick" /\ ~last.active
  /\ lastTime - last.lastTime = 5
  /\ last.dt = 3
  /\ 20 * last.iters = 3 * baseDiffusion * (10 + 3 * cfg.burnSpeed)
  /\ \E i \in Cells : last.diffused[i] > 0 /\ last.decayed[i] < last.diffused[i]

\* the grid, the buffers, the kernel, the pointer and the loop variables are
\* what they were before the last operation
SimulationUnchanged ==
  /\ gridW = last.gridW /\ gridH = last.gridH /\ pixelScale = last.pixelScale
  /\ heat = last.heat /\ heatSwap = last.heatSwap /\ glowMask = last.glowMask
  /\ pixels = last.pixels /\ bufId = last.bufId
  /\ kernel = last.kernel
  /\ ptr = last.ptr
  /\ lastTime = last.lastTime /\ fracIters = last.fracIters

\* C14: at most one frame callback is pending at any time; a frame leaves
\* exactly one pending, its newly requested successor, and so does a
\* configuration change of a running engine; once the view is torn down none
\* is pending, no frame has run since, and a pointer or resize event leaves
\* the simulation state as it was.
C14_FrameScheduling ==
  /\ Cardinality(frames) <= 1
  /\ phase = "running" => frames = {rafCount}
  /\ last.op = "tick" => (phase = "running" /\ rafCount > 0 /\ frames = {rafCount})
  /\ phase = "unmounted" =>
       /\ frames = {}
       /\ ~listening
       /\ last.op \in {"resize", "move", "leave"} => SimulationUnchanged

\* after a stroke has painted heat the view is torn down, and then the window
\* is resized: nothing pending, the grid still that of the old window
C14_Witness ==
  /\ phase = "unmounted"
  /\ last.op = "resize"
  /\ rafCount > HoldFrames
  /\ gridW # CeilDiv(win.w, pixelScale)
  /\ \E i \in Cells : heat[i] > 0
  /\ frames = {}

C16_ResizeReevaluates ==
  (last.op = "resize" /\ listening) =>
    /\ pixelScale = getPixelScale(win)
    /\ gridW = CeilDiv(win.w, getPixelScale(win))
    /\ gridH = CeilDiv(win.h, getPixelScale(win))
    /\ kernel = buildBrushKernel(cfg.brushRadius, cfg.bleedRadius, getPixelScale(win))

\* C17 (as stated): while the glow multiplier is unlimited no glow mask buffer
\* exists, neither after start-up nor after a resize.
C17_NoMaskWhenUnlimited ==
  (phase = "running" /\ ~useGlowMask(cfg)) => glowMask = None

RECURSIVE Passes(_, _)
Passes(h, n) ==
  IF n = 0 THEN h
  ELSE LET prev == Passes(h, n - 1)
       IN  IF Length(prev) = Length(h) THEN DiffusePass(prev, gridW, gridH) ELSE None

\* C19: after the diffuse step of a frame that runs n passes (n >= 0, odd or
\* even) the heat buffer is the single-pass operator applied n times to the
\* heat buffer as it was before the step - unchanged when n = 0 - whatever the
\* scratch buffer held.
C19_PingPong ==
  last.op = "tick" =>
    /\ last.diffused = Passes(last.heat, last.iters)
    /\ last.iters = 0 => last.diffused = last.heat

\* a frame with an odd number of passes over a heated buffer, the scratch
\* buffer holding other values than the heat buffer
C19_Witness ==
  /\ last.op = "tick"
  /\ last.iters % 2 = 1 /\ last.iters >= 3
  /\ last.heatSwap # last.heat
  /\ \E i \in Cells : last.heatSwap[i] > 0
  /\ \E i \in Cells : last.heat[i] > 0
  /\ last.diffused # last.heat
  /\ last.diffused # last.heatSwap

\* the squared distance, in grid cells, of cell i from the pointer's cell
PointerD2(i) ==
  (CellX(i) - PointerGX) * (CellX(i) - PointerGX)
    + (CellY(i) - PointerGY) * (CellY(i) - PointerGY)

\* dist <= 0.7 * glowMaxGrid, dist <= glowMaxGrid
WithinFadeStart(d2) == 100 * d2 * pixelScale * pixelScale <= 49 * GlowMaxPx(cfg) * GlowMaxPx(cfg)
WithinGlowMax(d2) == d2 * pixelScale * pixelScale <= GlowMaxPx(cfg) * GlowMaxPx(cfg)

\* C22 (as stated): after an active frame with a finite glow multiplier, also
\* one that follows a resize to a larger grid, every cell of the grid within
\* 0.7 * glowMaxGrid of the pointer's cell has glow mask 1, every cell farther
\* out but within glowMaxGrid has at least the cubic fade value, and the paint
\* step has lowered no glow mask value.
C22_GlowPainted ==
  (last.op = "tick" /\ last.active /\ useGlowMask(cfg)) =>
    \A i \in Cells :
      /\ WithinFadeStart(PointerD2(i)) => glowMask[i] = WeightOne
      /\ WithinGlowMax(PointerD2(i)) => glowMask[i] >= GlowValue(PointerD2(i))
      /\ glowMask[i] >= last.glowDecayed[i]

\* the background pixel of the palette in use
BgPixel == getBackgroundABGR(palettes[cfg.palette].background)

\* C23: while the glow multiplier is unlimited a frame leaves the glow mask as
\* it was (neither its decay step nor its paint step touches it), and every
\* pixel is the one the cell's heat alone calls for: the mask is not read.
C23_UnlimitedGlow ==
  (last.op = "tick" /\ ~useGlowMask(cfg)) =>
    /\ glowMask = last.glowMask
    /\ last.glowDecayed = last.glowMask
    /\ \A i \in Cells :
         pixels[i] = IF AboveThreshold(last.painted[i])
                       THEN PaletteLUT[cfg.palette][LutIndex(last.painted[i])]
                       ELSE BgPixel

\* a frame under unlimited glow with two cells showing heat: one whose mask
\* is 0, one whose mask was painted under an earlier, finite multiplier
C23_Witness ==
  /\ last.op = "tick" /\ ~useGlowMask(cfg)
  /\ \E i \in Cells : glowMask[i] > 0 /\ AboveThreshold(heat[i]) /\ pixels[i] # BgPixel
  /\ \E i \in Cells : glowMask[i] = 0 /\ AboveThreshold(heat[i]) /\ pixels[i] # BgPixel

\* the effective intensity of cell i in the render step of the last frame
Effective(i) == Shown(last.painted[i], glowMask[i])

\* C24: in the render step of every frame a cell whose effective intensity
\* (heat, times min(1, glow mask) when the glow multiplier is finite) is not
\* above the threshold (0.002, or 0.015 for a cycling palette) gets the
\* background pixel and its heat is kept, or set to 0 if it was negative; a
\* cell above the threshold gets the LUT entry of its index and its heat is
\* kept.
C24_RenderThreshold ==
  last.op = "tick" =>
    \A i \in Cells :
      IF Effective(i) * 1000 > (IF isCycling(cfg) THEN 15 ELSE 2) * HeatOne
        THEN /\ pixels[i] = PaletteLUT[cfg.palette][LutIndex(Effective(i))]
             /\ heat[i] = last.painted[i]
        ELSE /\ pixels[i] = BgPixel
             /\ heat[i] = (IF last.painted[i] < 0 THEN 0 ELSE last.painted[i])
             /\ heat[i] >= 0

\* a frame with a finite glow multiplier that draws one cell from the LUT and
\* leaves a warm cell, below the threshold, as background with its heat kept
C24_Witness ==
  /\ last.op = "tick" /\ useGlowMask(cfg)
  /\ \E i \in Cells : AboveThreshold(Effective(i)) /\ pixels[i] # BgPixel
  /\ \E i \in Cells :
       /\ heat[i] > 0 /\ ~AboveThreshold(Effective(i))
       /\ pixels[i] = BgPixel /\ heat[i] = last.painted[i]

\* the frames run since the pointer left
IdleFrames == IF used.steps >= 2 THEN used.steps - 2 ELSE 0

\* C26: in a frame with the pointer inactive no heat value exceeds the
\* largest heat value before the frame, no glow mask cell is above its value
\* before the frame and no value is negative; CoolFrames frames after the
\* pointer has left a held stroke every cell's effective intensity is at or
\* below the threshold and every pixel is the background pixel.
C26_IdleCooling ==
  (last.op = "tick" /\ ~last.active) =>
    /\ \A i \in Cells : \E j \in Cells : heat[i] <= last.heat[j]
    /\ \A i \in Cells : glowMask[i] <= last.glowMask[i]
    /\ \A i \in Cells : heat[i] >= 0 /\ glowMask[i] >= 0
    /\ IdleFrames >= CoolFrames =>
         \A i \in Cells : ~AboveThreshold(Effective(i)) /\ pixels[i] = BgPixel

\* the first frame after the pointer has left that draws only background,
\* with heat still in the grid and the frame before it showing some
C26_Witness ==
  /\ last.op = "tick" /\ ~last.active /\ last.dt > 0
  /\ \E i \in Cells : last.pixels[i] # BgPixel
  /\ \A i \in Cells : pixels[i] = BgPixel
  /\ \E i \in Cells : heat[i] > 0 /\ heat[i] < last.heat[i]

\* every access of the sample, paint and glow loops of a frame at (gx, gy)
FrameAccess ==
  KernelAccess(PointerGX, PointerGY, TRUE)
    \cup KernelAccess(PointerGX, PointerGY, FALSE)
    \cup (IF useGlowMask(cfg) THEN GlowAccess(PointerGX, PointerGY) ELSE {})

\* the kernel entries whose target cell is in the grid, tested on the
\* coordinates themselves
EntriesInGrid(coreOnly) ==
  {n \in 1..Len(kernel) :
     /\ coreOnly => kernel[n].w >= WeightOne
     /\ PointerGX + kernel[n].dx \in 0..(gridW - 1)
     /\ PointerGY + kernel[n].dy \in 0..(gridH - 1)}

\* C27: in every frame with the pointer active, wherever the pointer is,
\* each index the sample, paint and glow loops use is within
\* 0..gridW*gridH-1 and is the index of the cell (gx+dx, gy+dy) itself (same
\* row, same column); a kernel offset that leaves the grid is skipped, so
\* the paint step changes only cells under the kernel and the glow step only
\* cells within the glow radius; with no solid-core cell in the grid the
\* paint value is the accumulation term alone.
C27_InGridAccess ==
  (last.op = "tick" /\ last.active) =>
    /\ \A a \in FrameAccess :
         /\ a.idx \in Cells
         /\ a.idx % gridW = a.x
         /\ a.idx \div gridW = a.y
    /\ Cardinality(KernelAccess(PointerGX, PointerGY, FALSE))
         = Cardinality(EntriesInGrid(FALSE))
    /\ SampleCore(PointerGX, PointerGY)
         = {a.idx : a \in KernelAccess(PointerGX, PointerGY, TRUE)}
    /\ \A i \in Cells :
         last.painted[i] # last.decayed[i] =>
           \E n \in EntriesInGrid(FALSE) :
             /\ i % gridW = PointerGX + kernel[n].dx
             /\ i \div gridW = PointerGY + kernel[n].dy
    /\ \A i \in Cells :
         glowMask[i] # last.glowDecayed[i] => useGlowMask(cfg) /\ WithinGlowMax(PointerD2(i))
    /\ EntriesInGrid(TRUE) = {} =>
         last.paint = (IF isCycling(cfg) THEN AccumDt(cfg.burnSpeed, last.dt)
                       ELSE Min(HeatOne, AccumDt(cfg.burnSpeed, last.dt)))

\* a frame with the pointer's cell outside the grid and no solid-core cell
\* in it: some kernel offsets are skipped, the paint value is the
\* accumulation term, and a cell of the grid is painted through a fade offset
C27_Witness ==
  /\ last.op = "tick" /\ last.active /\ last.dt > 0
  /\ ~(PointerGX \in 0..(gridW - 1) /\ PointerGY \in 0..(gridH - 1))
  /\ EntriesInGrid(TRUE) = {}
  /\ Cardinality(EntriesInGrid(FALSE)) < Len(kernel)
  /\ last.paint > 0
  /\ \E i \in Cells : last.painted[i] # last.decayed[i]

\* the glow mask value that cell i held before the last operation, 0 for a
\* cell the grid did not have
MaskBefore(i) ==
  LET x == i % gridW
      y == i \div gridW
  IN  IF x < last.gridW /\ y < last.gridH
        THEN last.glowMask[y * last.gridW + x]
        ELSE 0

\* C29: every glow mask value is in [0, 1]; the mask is 0 everywhere after
\* set-up, and a cell's value becomes positive only in a frame with the
\* pointer active, a finite glow multiplier and the cell within glowMaxGrid
\* of the pointer's cell (a resize keeps each cell's value, no other
\* operation raises one), so a cell that was never within that distance
\* holds 0; with a finite multiplier a cell whose mask is 0 is drawn as
\* background whatever its heat.
C29_GlowConfinement ==
  glowMask # None =>
    /\ \A i \in Cells : glowMask[i] >= 0 /\ glowMask[i] <= WeightOne
    /\ last.op = "init" => \A i \in Cells : glowMask[i] = 0
    /\ last.op = "tick" =>
         \A i \in Cells :
           glowMask[i] > 0 =>
             \/ last.glowMask[i] > 0
             \/ last.active /\ useGlowMask(cfg) /\ WithinGlowMax(PointerD2(i))
    /\ last.op \in {"resize", "move", "leave", "config", "unmount"} =>
         \A i \in Cells : glowMask[i] > 0 => MaskBefore(i) > 0
    /\ (last.op = "tick" /\ useGlowMask(cfg)) =>
         \A i \in Cells : glowMask[i] = 0 => pixels[i] = BgPixel

\* a frame with a finite multiplier and the pointer active that leaves a
\* cell beyond glowMaxGrid with mask 0 and heat above the threshold, drawn as
\* background, next to a cell that is shown
C29_Witness ==
  /\ last.op = "tick" /\ last.active /\ useGlowMask(cfg)
  /\ \E i \in Cells :
       /\ ~WithinGlowMax(PointerD2(i))
       /\ glowMask[i] = 0 /\ AboveThreshold(heat[i]) /\ pixels[i] = BgPixel
  /\ \E i \in Cells : glowMask[i] > 0 /\ pixels[i] # BgPixel

\* a frame with dt > 0 and the pointer active over a cell of the grid
HeldFrame ==
  /\ last.op = "tick" /\ last.active /\ last.dt > 0
  /\ InGrid(PointerGX, PointerGY)

\* the paint value does not decrease from the frame before and grows by the
\* accumulation term at least, up to the clamp at 1 of a non-cycling palette
PaintGrows ==
  (HeldFrame /\ last.prevPaint >= 0) =>
    /\ last.paint >= last.prevPaint
    /\ last.paint >= (IF isCycling(cfg)
                        THEN last.prevPaint + AccumDt(cfg.burnSpeed, last.dt)
                        ELSE Min(HeatOne, last.prevPaint + AccumDt(cfg.burnSpeed, last.dt)))

\* the last frame of a stroke held for HoldFrames frames from set-up on
HoldDone == HeldFrame /\ used.steps = 1 /\ used.hold = HoldFrames

\* a stroke held for HoldFrames frames has reached 1
PaintSaturates == HoldDone => last.paint >= HeatOne

\* C30 (as stated): with the pointer held on a cell of the grid and frames
\* with dt > 0, the paint value never decreases from one frame to the next
\* and grows by the accumulation term at least; under a non-cycling palette
\* it reaches 1 and from then on the pointer's cell holds exactly 1 after
\* every frame; under a cycling palette it goes on growing past 1.
C30_HeldBrush ==
  /\ PaintGrows
  /\ PaintSaturates
  /\ (HeldFrame /\ ~isCycling(cfg) /\ last.paint = HeatOne) => heat[PointerCell] = HeatOne
  /\ (HoldDone /\ isCycling(cfg)) => last.paint > HeatOne

(***************************************************************************)
(* DiffuseSpec: one diffusion pass applied to small grids.                 *)
(***************************************************************************)
DiffuseGrids == {<<1, 1>>, <<2, 2>>, <<3, 1>>, <<3, 3>>, <<4, 3>>}
HotValues == {8, 20, HeatOne, 3 * HeatOne}
DiffuseLevels == {0, 8, 24, HeatOne}
MaxPasses == 3

\* a grid with one hot cell, a 2 x 2 grid of any levels, or a uniform grid;
\* `first` is the input of the first pass, `n` the passes run before `src`
DiffuseInputs ==
  UNION {{[fn |-> "diffuse", w |-> g[1], h |-> g[2], n |-> 0,
           src |-> Array([i \in 0..(g[1] * g[2] - 1) |-> IF i = hot THEN v ELSE lvl]),
           first |-> Array([i \in 0..(g[1] * g[2] - 1) |-> IF i = hot THEN v ELSE lvl])] :
            hot \in 0..(g[1] * g[2] - 1), v \in HotValues, lvl \in {0, 20}} :
         g \in DiffuseGrids}
  \cup {[fn |-> "diffuse", w |-> 2, h |-> 2, n |-> 0, src |-> Array(f), first |-> Array(f)] :
          f \in [0..3 -> DiffuseLevels]}

DiffuseInit ==
  /\ fnIn \in DiffuseInputs
  /\ fnOut = None
  /\ EngineOff

\* the first pass of a frame
CallDiffusePass ==
  /\ fnIn.fn = "diffuse" /\ fnOut = None
  /\ fnOut' = DiffusePass(fnIn.src, fnIn.w, fnIn.h)
  /\ UNCHANGED <<fnIn, engineVars>>

\* a further pass, from the result of the previous one
CallNextPass ==
  /\ fnIn.fn = "diffuse" /\ fnOut # None
  /\ fnIn.n < MaxPasses
  /\ fnIn' = [fnIn EXCEPT !.src = fnOut, !.n = @ + 1]
  /\ fnOut' = DiffusePass(fnOut, fnIn.w, fnIn.h)
  /\ UNCHANGED engineVars

DiffuseNext ==
  \/ CallDiffusePass
  \/ CallNextPass

DiffuseSpec == DiffuseInit /\ [][DiffuseNext]_vars

DiffuseBuilt == fnIn.fn = "diffuse" /\ fnOut # None

\* the value a pass reads for the neighbour of (x, y) at (x + ox, y + oy)
Neighbour(x, y, ox, oy) ==
  IF x + ox >= 0 /\ x + ox < fnIn.w /\ y + oy >= 0 /\ y + oy < fnIn.h
    THEN fnIn.src[(y + oy) * fnIn.w + (x + ox)]
    ELSE fnIn.src[y * fnIn.w + x]

HotCells == {i \in DOMAIN fnIn.src : fnIn.src[i] # 0}

Interior(i) ==
  /\ i % fnIn.w > 0 /\ i % fnIn.w < fnIn.w - 1
  /\ i \div fnIn.w > 0 /\ i \div fnIn.w < fnIn.h - 1

\* C4: one pass puts c + ((l + r + u + d) * 0.25 - c) * 0.5 in every cell (to the
\* nearest storable value), a neighbour outside the grid counting as the cell
\* itself; from one interior hot cell of value v among zeros the centre gets
\* 0.5 * v, each of its four neighbours 0.125 * v, every other cell 0.
C4_DiffusionPass ==
  DiffuseBuilt =>
    /\ DOMAIN fnOut = DOMAIN fnIn.src
    /\ \A i \in DOMAIN fnOut :
         LET x == i % fnIn.w
             y == i \div fnIn.w
             exact8 == 4 * fnIn.src[i] + Neighbour(x, y, -1, 0) + Neighbour(x, y, 1, 0)
                         + Neighbour(x, y, 0, -1) + Neighbour(x, y, 0, 1)
         IN  Abs(8 * fnOut[i] - exact8) <= 4
    /\ \A c \in HotCells :
         (HotCells = {c} /\ Interior(c) /\ fnIn.src[c] % 8 = 0) =>
           \A i \in DOMAIN fnOut :
             IF i = c THEN 2 * fnOut[i] = fnIn.src[c]
             ELSE IF i \in {c - 1, c + 1, c - fnIn.w, c + fnIn.w}
               THEN 8 * fnOut[i] = fnIn.src[c]
               ELSE fnOut[i] = 0

\* a pass over a 4 x 3 grid whose only hot cell is interior and holds 1
C4_Witness ==
  /\ DiffuseBuilt
  /\ fnIn.w = 4 /\ fnIn.h = 3
  /\ HotCells = {5} /\ fnIn.src[5] = HeatOne
  /\ fnOut[5] = HeatOne \div 2 /\ fnOut[1] = HeatOne \div 8 /\ fnOut[0] = 0

\* the input values a pass reads for cell i: its own and its in-grid
\* neighbours'
Around(i) ==
  LET x == i % fnIn.w
      y == i \div fnIn.w
  IN  {fnIn.src[i]}
        \cup {fnIn.src[j] : j \in {k \in DOMAIN fnIn.src :
                 \/ (k \div fnIn.w = y /\ (k % fnIn.w = x - 1 \/ k % fnIn.w = x + 1))
                 \/ (k % fnIn.w = x /\ (k \div fnIn.w = y - 1 \/ k \div fnIn.w = y + 1))}}

\* C28: after one pass every cell lies between the least and the greatest
\* of its own input and its in-grid neighbours' inputs; after any number of
\* passes no cell is above the greatest or below the least value of the
\* first input, a non-negative grid is still non-negative and a uniform
\* grid is unchanged.
C28_MaximumPrinciple ==
  DiffuseBuilt =>
    /\ \A i \in DOMAIN fnOut :
         /\ \E v \in Around(i) : fnOut[i] <= v
         /\ \E v \in Around(i) : fnOut[i] >= v
         /\ \E j \in DOMAIN fnIn.first : fnOut[i] <= fnIn.first[j]
         /\ \E j \in DOMAIN fnIn.first : fnOut[i] >= fnIn.first[j]
         /\ fnOut[i] >= 0
    /\ (\A i, j \in DOMAIN fnIn.first : fnIn.first[i] = fnIn.first[j]) => fnOut = fnIn.first

\* the last of several passes over a grid that is hot in one corner: the
\* corner has cooled, a cell that was at the floor has warmed, and both are
\* within the first input's range
C28_Witness ==
  /\ DiffuseBuilt /\ fnIn.n = MaxPasses
  /\ fnIn.w = 4 /\ fnIn.h = 3
  /\ fnIn.first[0] = HeatOne /\ fnIn.first[11] = 20
  /\ fnOut[0] < HeatOne /\ fnOut[0] > 20
  /\ fnOut[1] > 20

(***************************************************************************)
(* DecaySpec: the per-frame multiplication applied again and again to one  *)
(* value.  Here the unit is float32's smallest positive value, below       *)
(* 2^-126 the spacing of float32 is exactly that unit.                     *)
(***************************************************************************)
MaxDecaySteps == 30
DecayStarts == {1, 2, 120, 700, 1270, 50000}

DecayInputs ==
  {[fn |-> "decay", h0 |-> v, dt |-> dt, cycling |-> c, active |-> a] :
     v \in DecayStarts, dt \in 1..3, c \in BOOLEAN, a \in BOOLEAN}

DecayInit ==
  /\ fnIn \in DecayInputs
  /\ fnOut = [n |-> 0, h |-> fnIn.h0, prev |-> fnIn.h0]
  /\ EngineOff

\* one more frame's heat[i] *= decay
ApplyDecay ==
  /\ fnIn.fn = "decay"
  /\ fnOut.n < MaxDecaySteps
  /\ fnOut' = [n |-> fnOut.n + 1,
               h |-> DecayCell(fnOut.h, DecayFactor(fnIn.dt, fnIn.cycling, fnIn.active)),
               prev |-> fnOut.h]
  /\ UNCHANGED <<fnIn, engineVars>>

DecayNext == ApplyDecay

DecaySpec == DecayInit /\ [][DecayNext]_vars

ActiveFactor == DecayFactor(fnIn.dt, fnIn.cycling, TRUE)

\* x * x as a decay factor
Squared(x) == MulFix(x, x, DecayOne)

MaxIndexLow == 1200
IndexHighs == {0, 1, 2, 1024, 2047}

IndexInputs ==
  [fn : {"index"}, cycling : BOOLEAN, hi : IndexHighs,
   lo : 0..MaxIndexLow \cup {65535}]

IndexInit ==
  /\ fnIn \in IndexInputs
  /\ fnOut = None
  /\ EngineOff

\* the index computation of one cell of the render loop
CallLutIndex ==
  /\ fnIn.fn = "index"
  /\ fnOut = None
  /\ fnOut' = [raw |-> ToInt32(fnIn.hi, fnIn.lo),
               idx |-> LutIndexOf(ToInt32(fnIn.hi, fnIn.lo), fnIn.cycling)]
  /\ UNCHANGED <<fnIn, engineVars>>

IndexNext == CallLutIndex

IndexSpec == IndexInit /\ [][IndexNext]_vars

\* floor(v * 255) of the input
IndexN == fnIn.hi * 65536 + fnIn.lo

\* C25: the index read from the LUT is an integer in 0..255: for a
\* non-cycling palette min(255, floor(v * 255)); for a cycling palette, with
\* raw = floor(v * 255) as a 32-bit integer, raw itself up to 40 and
\* 40 + (((raw - 40) >> 2) mod 216) above, which is at least 40, at most 255
\* and equal to 40 at raw = 41.
C25_LutIndex ==
  (fnIn.fn = "index" /\ fnOut # None) =>
    /\ fnOut.idx \in 0..255
    /\ fnOut.raw = IndexN
    /\ ~fnIn.cycling => fnOut.idx = (IF IndexN < 255 THEN IndexN ELSE 255)
    /\ (fnIn.cycling /\ IndexN <= 40) => fnOut.idx = IndexN
    /\ (fnIn.cycling /\ IndexN > 40) =>
         /\ fnOut.idx = 40 + (((IndexN - 40) \div 4) % 216)
         /\ fnOut.idx >= 40
    /\ (fnIn.cycling /\ IndexN \in 41..43) => fnOut.idx = 40
    /\ (fnIn.cycling /\ IndexN = 40 + 4 * 216) => fnOut.idx = 40

\* a cycling index that has gone once round the colour band
C25_Witness ==
  /\ fnIn.fn = "index" /\ fnOut # None
  /\ fnIn.cycling /\ IndexN >= 40 + 4 * 216 /\ fnOut.idx = 255

(***************************************************************************)
(* CounterSpec: the fractional diffusion counter over a run of frames,     *)
(* from its start at 0, for either base pass count, with the burn speed    *)
(* and the frame's dt free in every frame.  Passes are counted in          *)
(* twentieths, as in the engine.                                           *)
(***************************************************************************)
MaxCounterFrames == 4
CounterBurns == {0, 1, 3, 5, 10}

CounterInputs == {[fn |-> "iters", base |-> b] : b \in {4, 6}}

CounterInit ==
  /\ fnIn \in CounterInputs
  /\ fnOut = [n |-> 0, fracIters |-> 0, passes |-> 0, sum |-> 0, iters |-> 0, inc |-> 0]
  /\ EngineOff

\* one more frame's counter update
CountFrame ==
  /\ fnIn.fn = "iters"
  /\ fnOut.n < MaxCounterFrames
  /\ \E burn \in CounterBurns : \E dt \in 0..3 :
       LET inc == fnIn.base * (10 + 3 * burn) * dt
           r == FracAdvance(fnOut.fracIters, fnIn.base * (10 + 3 * burn), dt)
       IN  fnOut' = [n |-> fnOut.n + 1,
                     fracIters |-> r.fracIters,
                     passes |-> fnOut.passes + r.iters,
                     sum |-> fnOut.sum + inc,
                     iters |-> r.iters,
                     inc |-> inc]
  /\ UNCHANGED <<fnIn, engineVars>>

CounterNext == CountFrame

CounterSpec == CounterInit /\ [][CounterNext]_vars

MaxKernelBrush == 7
KernelBrushes == 2..MaxKernelBrush
KernelBleeds == {0, 16, 30, 31, 45, 60}
PixelScales == {2, 3}

\* the inputs tried: the product of the sets above, and the default brush
\* (radius 40) on a desktop display at maximum hardness and with the two
\* default fade radii
KernelInputs ==
  [fn : {"kernel"}, brushRadius : KernelBrushes,
   bleedRadius : KernelBleeds, pixelScale : PixelScales]
  \cup [fn : {"kernel"}, brushRadius : {40}, bleedRadius : {0, 16, 30}, pixelScale : {2}]

KernelInit ==
  /\ fnIn \in KernelInputs
  /\ fnOut = None
  /\ EngineOff

CallBuildKernel ==
  /\ fnIn.fn = "kernel"
  /\ fnOut = None
  /\ fnOut' = buildBrushKernel(fnIn.brushRadius, fnIn.bleedRadius, fnIn.pixelScale)
  /\ UNCHANGED <<fnIn, engineVars>>

KernelNext == CallBuildKernel

KernelSpec == KernelInit /\ [][KernelNext]_vars

KernelBuilt == fnIn.fn = "kernel" /\ fnOut # None

\* squared distance of a kernel entry from the centre
D2(e) == e.dx * e.dx + e.dy * e.dy

\* C8: every kernel weight lies in [0,1], and of any two kernel entries the one
\* farther from the centre has a weight less than or equal to the other's
\* (within the disc, within the bleed zone and across their boundary).
\* Stated through the entries of one octant (0 <= dy <= dx): every entry has
\* the weight of its mirror image in that octant, which is at the same distance,
\* and the weights of the octant's entries are ordered by distance.
C8_KernelMonotone ==
  KernelBuilt =>
    LET triples == {<<fnOut[i].dx, fnOut[i].dy, fnOut[i].w>> : i \in 1..Len(fnOut)}
        octant == {t \in triples : 0 <= t[2] /\ t[2] <= t[1]}
    IN  /\ \A t \in triples : t[3] >= 0 /\ t[3] <= WeightOne
        /\ \A t \in triples :
             <<Max(Abs(t[1]), Abs(t[2])), Min(Abs(t[1]), Abs(t[2])), t[3]>> \in octant
        /\ \A s, t \in octant :
             s[1] * s[1] + s[2] * s[2] <= t[1] * t[1] + t[2] * t[2] => s[3] >= t[3]

\* a soft kernel with a graded disc and a bleed zone, both populated
C8_Witness ==
  /\ KernelBuilt
  /\ fnIn.bleedRadius > 30
  /\ \E i, j \in 1..Len(fnOut) :
       /\ DistLeq(D2(fnOut[i]), fnIn.brushRadius, fnIn.pixelScale)
       /\ fnOut[i].w < WeightOne
       /\ ~DistLeq(D2(fnOut[j]), fnIn.brushRadius, fnIn.pixelScale)
       /\ fnOut[j].w > 0
       /\ fnOut[j].w < fnOut[i].w

\* C9: with fadeRadius <= 30 innerMinWeight is 1 and every entry within
\* brushRadius/scale of the centre has weight exactly 1; for every input the
\* kernel holds exactly the integer offsets at distance <= (brush+fade)/scale,
\* each once.
C9_HardBrush ==
  KernelBuilt =>
    LET c == CeilDiv(fnIn.brushRadius + fnIn.bleedRadius, fnIn.pixelScale)
        offsets == {<<fnOut[i].dx, fnOut[i].dy>> : i \in 1..Len(fnOut)}
    IN  /\ fnIn.bleedRadius <= 30 =>
             /\ InnerMinWeight(fnIn.bleedRadius) = WeightOne
             /\ \A i \in 1..Len(fnOut) :
                  DistLeq(D2(fnOut[i]), fnIn.brushRadius, fnIn.pixelScale)
                    => fnOut[i].w = WeightOne
        /\ offsets = {o \in ((-c - 1)..(c + 1)) \X ((-c - 1)..(c + 1)) :
                        DistLeq(o[1] * o[1] + o[2] * o[2],
                                fnIn.brushRadius + fnIn.bleedRadius, fnIn.pixelScale)}
        /\ Cardinality(offsets) = Len(fnOut)

\* the scenario of the claim: brush 40, fade 0, scale 2, a disc of radius 20
C9_Witness ==
  /\ KernelBuilt
  /\ fnIn.brushRadius = 40 /\ fnIn.bleedRadius = 0 /\ fnIn.pixelScale = 2
  /\ Len(fnOut) = 1257
  /\ \E i \in 1..Len(fnOut) : fnOut[i].dx = 20 /\ fnOut[i].dy = 0

====
